---- MODULE Spec2Model ----
(***************************************************************************)
(* Model of src/src/robot.ts: the Robot class of node-dingtalk-robot.      *)
(* One Robot instance (the dispatcher), its axios instance with the        *)
(* request interceptor and the axios-retry policy installed by the         *)
(* constructor, and the send calls (text, markdown, link, actionCard,      *)
(* feedCard -> request) a client issues on it.                             *)
(*                                                                         *)
(* JavaScript optional values are sequences: <<>> is undefined, <<v>> is   *)
(* the value v.                                                            *)
(***************************************************************************)
EXTENDS Integers, Sequences, FiniteSets, TLC

\* ------------------------------------------------------------------ bounds

\* Number of send calls the client issues on the one Robot.
MaxCalls == 2
\* Largest explicit `retries` option explored (besides undefined and 0).
MaxRetriesOpt == 2
\* Largest number of milliseconds that pass between the Date.now() of
\* request() and the Date.now() of the request interceptor of the first attempt.
MaxLag == 1

\* ------------------------------------------------------- program constants

DefaultTimeout == 3000
DefaultRetries == 10

\* ------------------------------------------------------------ JS helpers

Undefined == <<>>

Some(v) == <<v>>

Opt(S) == {Undefined} \cup {Some(v) : v \in S}

\* JavaScript truthiness of an optional string.
TruthyStr(o) == o # Undefined /\ o # Some("")

\* JavaScript truthiness of an optional number.
TruthyNum(o) == o # Undefined /\ o # Some(0)

\* a || d, for an optional number a.
OrElse(o, d) == IF TruthyNum(o) THEN o[1] ELSE d

Max(a, b) == IF a >= b THEN a ELSE b

\* ------------------------------------------------------------ input sets

Urls == {"", "http://hook"}
Tokens == {"", "tok"}
Secrets == {"", "SEC"}
Timeouts == {7}
Retries == 0..MaxRetriesOpt

\* RobotConstructorOptions
Options ==
  [url : Opt(Urls), accessToken : Opt(Tokens), secret : Opt(Secrets),
   timeout : Opt(Timeouts), retries : Opt(Retries)]

Calls == 1..MaxCalls

\* The remote response envelopes { errcode, errmsg }.
Envelopes ==
  {[errcode |-> 0, errmsg |-> "ok"], [errcode |-> 1, errmsg |-> "token invalid"]}

Statuses == {200, 299, 302, 400, 499, 500, 599}

\* What the transport can answer to one attempt: an HTTP response ...
HttpResponses == [status : Statuses, data : Envelopes]

\* ... or no response at all: a socket error, or an abort that is not a timeout.
TransportErrors ==
  {[code |-> "ECONNRESET", message |-> <<"read ECONNRESET">>],
   [code |-> "ETIMEDOUT", message |-> <<"connect ETIMEDOUT">>],
   [code |-> "ECONNABORTED", message |-> <<"Request aborted">>]}

\* Arguments of the public operations: the shorthand (positional) form and the
\* structured form of text and markdown, the structured form of the others.
TextArgs ==
  {[form |-> "shorthand", content |-> "hello"],
   [form |-> "structured", req |-> [content |-> "hello"]]}

MarkdownArgs ==
  {[form |-> "shorthand", title |-> "T", text |-> "B"],
   [form |-> "structured", req |-> [title |-> "T", text |-> "B"]]}

LinkArgs == {[text |-> "B", title |-> "T", messageUrl |-> "http://m"]}

ActionCardArgs ==
  {[title |-> "T", text |-> "B", singleTitle |-> "go", singleURL |-> "http://a"]}

FeedCardArgs ==
  {[links |-> <<[title |-> "T", messageURL |-> "http://m", picURL |-> "http://p"]>>]}

\* ---------------------------------------------------------------- state

VARIABLES
  opts,      \* the RobotConstructorOptions the Robot was built from
  url,       \* this.#url
  secret,    \* this.#secret
  timeout,   \* this.#timeout
  retries,   \* this.#retries
  now,       \* Date.now(), in milliseconds since construction
  ncalls,    \* how many send calls the client issues on the Robot
  calls      \* the send calls: calls[c] is the state of call c

vars == <<opts, url, secret, timeout, retries, now, ncalls, calls>>

\* ------------------------------------------------------------- constructor

DerivedUrl(token) == <<"https://oapi.dingtalk.com/robot/send?access_token=", token>>

\* Mutant of ctorUrl: the URL is derived from accessToken without the test that
\* one was given.
ctorUrlAlwaysDerived(o) ==
  Some(DerivedUrl(IF o.accessToken = Undefined THEN "undefined" ELSE o.accessToken[1]))

\* Mutant of ctorUrl: a supplied url takes precedence over the accessToken.
ctorUrlPrefersUrl(o) ==
  IF TruthyStr(o.url) THEN Some(<<o.url[1]>>)
  ELSE IF TruthyStr(o.accessToken) THEN Some(DerivedUrl(o.accessToken[1]))
  ELSE IF o.url = Undefined THEN Undefined ELSE Some(<<o.url[1]>>)

\* this.#url = opts.url; if (opts.accessToken) this.#url = `...${opts.accessToken}`
ctorUrl(o) ==
  IF TruthyStr(o.accessToken) THEN Some(DerivedUrl(o.accessToken[1]))
  ELSE IF o.url = Undefined THEN Undefined ELSE Some(<<o.url[1]>>)

\* this.#timeout = opts.timeout || 3000
ctorTimeout(o) == OrElse(o.timeout, DefaultTimeout)

\* this.#retries = opts.retries || 10
ctorRetries(o) == OrElse(o.retries, DefaultRetries)

\* !this.#url
UrlIsEmpty(u) == u = Undefined \/ u = Some(<<"">>)

\* Mutant of validateStatus: redirects count as delivered.
validateStatusBelow400(status) == status >= 200 /\ status < 400

\* validateStatus of axios.create
validateStatus(status) == status >= 200 /\ status < 300

\* ------------------------------------------------------------------ signer

\* createHmac('sha256', key).update(message): the digest is kept symbolic, as
\* the pair it is computed from.
HmacSha256(key, message) == [hmac |-> "sha256", key |-> key, message |-> message]

\* h.digest('base64')
Base64(digest) == [base64 |-> digest]

EncodeURIComponent(text) == [uri |-> text]

\* the signed message `${timestamp}\n${secret}`
SignedMessage(sec, timestamp) == <<timestamp, "\n", sec>>

\* encodeURIComponent(createHmac('sha256', secret).update(...).digest('base64'))
Sign(sec, timestamp) ==
  EncodeURIComponent(Base64(HmacSha256(sec, SignedMessage(sec, timestamp))))

\* Mutant of SignParams: signs whenever a secret is given, the empty one too.
SignParamsAnySecret(sec, timestamp) ==
  IF sec # Undefined
    THEN ("timestamp" :> timestamp) @@ ("sign" :> Sign(sec[1], timestamp))
    ELSE <<>>

\* params of request(): { timestamp, sign } when this.#secret is truthy, else {}
SignParams(sec, timestamp) ==
  IF TruthyStr(sec)
    THEN ("timestamp" :> timestamp) @@ ("sign" :> Sign(sec[1], timestamp))
    ELSE <<>>

\* ---------------------------------------------------------------- builders

\* Mutant of textData: the shorthand form gets default mentions.
textDataDefaultAt(arg) ==
  LET content == IF arg.form = "shorthand" THEN arg.content ELSE arg.req.content
      at == IF arg.form = "shorthand" THEN Some([isAtAll |-> FALSE])
            ELSE IF "at" \notin DOMAIN arg.req THEN Undefined ELSE Some(arg.req.at)
  IN  [msgtype |-> "text", text |-> [content |-> content, at |-> at]]

\* text(arg): the object handed to request()
textData(arg) ==
  LET content == IF arg.form = "shorthand" THEN arg.content ELSE arg.req.content
      at == IF arg.form = "shorthand" \/ "at" \notin DOMAIN arg.req
              THEN Undefined ELSE Some(arg.req.at)
  IN  [msgtype |-> "text", text |-> [content |-> content, at |-> at]]

\* Mutant of markdownData: the structured form takes title and text crosswise.
markdownDataCrossed(arg) ==
  LET title == IF arg.form = "shorthand" THEN arg.title ELSE arg.req.text
      text == IF arg.form = "shorthand" THEN arg.text ELSE arg.req.title
      at == IF arg.form = "shorthand" \/ "at" \notin DOMAIN arg.req
              THEN Undefined ELSE Some(arg.req.at)
  IN  [msgtype |-> "markdown", markdown |-> [title |-> title, text |-> text, at |-> at]]

\* markdown(arg1, arg2): the object handed to request()
markdownData(arg) ==
  LET title == IF arg.form = "shorthand" THEN arg.title ELSE arg.req.title
      text == IF arg.form = "shorthand" THEN arg.text ELSE arg.req.text
      at == IF arg.form = "shorthand" \/ "at" \notin DOMAIN arg.req
              THEN Undefined ELSE Some(arg.req.at)
  IN  [msgtype |-> "markdown", markdown |-> [title |-> title, text |-> text, at |-> at]]

linkData(data) == [msgtype |-> "link", link |-> data]

actionCardData(data) == [msgtype |-> "actionCard", actionCard |-> data]

feedCardData(data) == [msgtype |-> "feedCard", feedCard |-> data]

\* JSON.stringify of an object whose property `at` may be undefined: a property
\* whose value is undefined is left out.
DropUndefinedAt(obj) ==
  IF obj.at = Undefined
    THEN [f \in DOMAIN obj \ {"at"} |-> obj[f]]
    ELSE [f \in DOMAIN obj |-> IF f = "at" THEN obj.at[1] ELSE obj[f]]

\* JSON.stringify(data)
JSONstringify(data) ==
  [json |->
     IF data.msgtype = "text"
       THEN [msgtype |-> "text", text |-> DropUndefinedAt(data.text)]
     ELSE IF data.msgtype = "markdown"
       THEN [msgtype |-> "markdown", markdown |-> DropUndefinedAt(data.markdown)]
     ELSE data]

\* ------------------------------------------------------------ retry policy

\* The error axios rejects with for a response validateStatus refuses.
StatusError(resp) ==
  [code |-> IF resp.status >= 500 THEN "ERR_BAD_RESPONSE" ELSE "ERR_BAD_REQUEST",
   message |-> <<"Request failed with status code ", resp.status>>,
   response |-> Some(resp)]

\* The error axios rejects with when no response arrived.
NoResponseError(e) == [code |-> e.code, message |-> e.message, response |-> Undefined]

\* The error axios rejects with when the attempt exceeds its timeout.
TimeoutError(ms) ==
  [code |-> "ECONNABORTED", message |-> <<"timeout of ", ms, "ms exceeded">>,
   response |-> Undefined]

\* err.message.includes('timeout')
MessageIncludesTimeout(err) == err.message[1] = "timeout of "

IdempotentMethods == {"GET", "HEAD", "OPTIONS", "PUT", "DELETE"}

\* axiosRetry.isNetworkOrIdempotentRequestError(err), for a request of `method`
isNetworkOrIdempotentRequestError(err, method) ==
  \/ err.response = Undefined /\ err.code # "" /\ err.code # "ECONNABORTED"
  \/ /\ method \in IdempotentMethods
     /\ err.code # "ECONNABORTED"
     /\ (err.response = Undefined \/ err.response[1].status >= 500)

\* Mutant of retryCondition: an exceeded timeout is not retried.
retryConditionNoTimeout(err, method) ==
  \/ isNetworkOrIdempotentRequestError(err, method)
  \/ err.code = "ETIMEDOUT"
  \/ err.response # Undefined /\ err.response[1].status >= 500

\* Mutant of retryCondition: a status of exactly 500 is not retried.
retryConditionAbove500(err, method) ==
  \/ isNetworkOrIdempotentRequestError(err, method)
  \/ err.code = "ECONNABORTED" /\ MessageIncludesTimeout(err)
  \/ err.code = "ETIMEDOUT"
  \/ err.response # Undefined /\ err.response[1].status > 500

\* Mutant of retryCondition: client errors are retried as well.
retryConditionFrom400(err, method) ==
  \/ isNetworkOrIdempotentRequestError(err, method)
  \/ err.code = "ECONNABORTED" /\ MessageIncludesTimeout(err)
  \/ err.code = "ETIMEDOUT"
  \/ err.response # Undefined /\ err.response[1].status >= 400

\* retryCondition of the axiosRetry options
retryCondition(err, method) ==
  \/ isNetworkOrIdempotentRequestError(err, method)
  \/ err.code = "ECONNABORTED" /\ MessageIncludesTimeout(err)
  \/ err.code = "ETIMEDOUT"
  \/ err.response # Undefined /\ err.response[1].status >= 500

\* Mutant of retryDelay: the delay is given in seconds.
retryDelayInSeconds == 1000 \div 1000

\* retryDelay of the axiosRetry options
retryDelay == 1000

\* shouldResetTimeout of the axiosRetry options
shouldResetTimeout == TRUE

\* axios-retry: retry while the request's own retryCount is below `retries`
\* and retryCondition accepts the error.
\* Mutant of shouldRetry: the retries of the calls made so far come off one
\* budget.
shouldRetryOneBudget(retryCount, err, method) ==
  /\ retryCount + Cardinality({d \in DOMAIN calls : calls[d].attempts > 1}) < retries
  /\ retryCondition(err, method)

shouldRetry(retryCount, err, method) ==
  retryCount < retries /\ retryCondition(err, method)

\* ------------------------------------------------------------------ calls

Terminal == {"Success", "RemoteRejected", "TransportFailed"}

\* A call that was not issued yet.
IdleCall ==
  [st |-> "Idle",            \* Idle, Sending, RetryWait or a terminal state
   op |-> "",                \* the public operation that was called
   arg |-> Undefined,        \* the argument it was called with
   calledAt |-> 0,           \* when it was called
   request |-> Undefined,    \* the axios request config of the call
   attempts |-> 0,           \* how often the transport was invoked for the call
   retryCount |-> 0,         \* axios-retry's retryCount of the request
   first |-> Undefined,      \* the first attempt as handed to the transport
   wire |-> Undefined,       \* the latest attempt as handed to the transport
   last |-> Undefined,       \* the answer to the latest attempt
   prior500 |-> TRUE,        \* every answer before `last` was an HTTP 500
   retryAt |-> 0,            \* when the retry timer is due
   error |-> Undefined]      \* what the returned promise was rejected with

\* The retries made so far by the calls 1..n together.
TotalRetryCount[n \in 0..MaxCalls] ==
  IF n = 0 THEN 0 ELSE calls[n].retryCount + TotalRetryCount[n - 1]

\* Mutant of getCurrentState: one retry counter for the whole axios instance.
getCurrentStateShared(c) == TotalRetryCount[MaxCalls]

\* axios-retry keeps the retry state in the config of the request it belongs to.
getCurrentState(c) == calls[c].retryCount

\* Mutant of requestInterceptor: `_` repeats the timestamp of a signed request.
requestInterceptorSameInstant(config, t) ==
  [config EXCEPT !.params =
     ("_" :> (IF "timestamp" \in DOMAIN config.params THEN config.params["timestamp"] ELSE t))
     @@ config.params]

\* The request interceptor: request.params['_'] = Date.now()
requestInterceptor(config, t) ==
  [config EXCEPT !.params = ("_" :> t) @@ config.params]

\* Mutant of Attempt: a signed request is signed again at every attempt.
AttemptSignedAgain(call, config, t) ==
  LET again == IF "timestamp" \in DOMAIN config.params
                 THEN [config EXCEPT !.params = SignParams(secret, t) @@ @]
                 ELSE config
      cfg == requestInterceptor(again, t)
      sent == Some([method |-> cfg.method, url |-> cfg.url, params |-> cfg.params,
                    body |-> cfg.data, sentAt |-> t])
  IN  [call EXCEPT
         !.st = "Sending",
         !.request = Some(cfg),
         !.attempts = @ + 1,
         !.first = IF call.attempts = 0 THEN sent ELSE @,
         !.wire = sent]

\* Mutant of Attempt: a retry serialises the already serialised body again.
AttemptSerialisedAgain(call, config, t) ==
  LET again == IF call.attempts = 0 THEN config ELSE [config EXCEPT !.data = [json |-> @]]
      cfg == requestInterceptor(again, t)
      sent == Some([method |-> cfg.method, url |-> cfg.url, params |-> cfg.params,
                    body |-> cfg.data, sentAt |-> t])
  IN  [call EXCEPT
         !.st = "Sending",
         !.request = Some(cfg),
         !.attempts = @ + 1,
         !.first = IF call.attempts = 0 THEN sent ELSE @,
         !.wire = sent]

\* One attempt: the interceptor runs at time t and the transport is invoked.
Attempt(call, config, t) ==
  LET cfg == requestInterceptor(config, t)
      sent == Some([method |-> cfg.method, url |-> cfg.url, params |-> cfg.params,
                    body |-> cfg.data, sentAt |-> t])
  IN  [call EXCEPT
         !.st = "Sending",
         !.request = Some(cfg),
         !.attempts = @ + 1,
         !.first = IF call.attempts = 0 THEN sent ELSE @,
         !.wire = sent]

\* The axios request config request() builds at time t.
RequestConfig(data, t) ==
  [method |-> "POST",
   url |-> url[1],
   timeout |-> timeout,
   headers |-> [ContentType |-> "application/json"],
   params |-> SignParams(secret, t),
   data |-> JSONstringify(data)]

\* request(data), up to and including the first attempt; op and arg are the
\* public operation that calls it and the argument of that operation.
request(c, op, arg, data) ==
  LET called == [IdleCall EXCEPT !.op = op, !.arg = Some(arg), !.calledAt = now]
  IN  /\ c <= ncalls
      /\ calls[c].st = "Idle"
      /\ \A d \in 1..(c - 1) : calls[d].st # "Idle"
      /\ IF UrlIsEmpty(url)
           THEN /\ calls' = [calls EXCEPT ![c] = [called EXCEPT !.st = "Success"]]
                /\ now' = now
           ELSE \E lag \in 0..MaxLag :
                  /\ now' = now + lag
                  /\ calls' = [calls EXCEPT ![c] =
                                 Attempt(called, RequestConfig(data, now), now + lag)]
      /\ UNCHANGED <<opts, ncalls, url, secret, timeout, retries>>

\* text(arg) as call c
textCall(c, arg) == request(c, "text", arg, textData(arg))

\* markdown(arg1, arg2) as call c
markdownCall(c, arg) == request(c, "markdown", arg, markdownData(arg))

text(c) == \E arg \in TextArgs : textCall(c, arg)

markdown(c) == \E arg \in MarkdownArgs : markdownCall(c, arg)

link(c) == \E data \in LinkArgs : request(c, "link", data, linkData(data))

actionCard(c) ==
  \E data \in ActionCardArgs : request(c, "actionCard", data, actionCardData(data))

feedCard(c) == \E data \in FeedCardArgs : request(c, "feedCard", data, feedCardData(data))

\* The Error the then-handler of request() throws.
RemoteError(errcode, errmsg) ==
  [name |-> "Error",
   message |-> <<"request dingtalk fail, errorcode '", errcode, "', errormsg '", errmsg, "'">>]

\* resp.data.errcode !== 0
IsRejection(errcode) == errcode # 0

\* The last answer was an HTTP 500.
LastWas500(call) ==
  /\ call.last # Undefined
  /\ call.last[1].response # Undefined
  /\ call.last[1].response[1].status = 500

\* The call takes note of the answer to its latest attempt.
Answered(call, code, message, response) ==
  [call EXCEPT
     !.prior500 = call.last = Undefined \/ (call.prior500 /\ LastWas500(call)),
     !.last = Some([code |-> code, message |-> message, response |-> response,
                    attempt |-> call.attempts])]

\* Mutant of onFulfilled: the Error is built but not thrown.
onFulfilledNoThrow(call, resp) ==
  [Answered(call, "", <<>>, Some(resp)) EXCEPT !.st = "Success"]

\* The then-handler of request(): the promise is fulfilled or rejected.
onFulfilled(call, resp) ==
  LET seen == Answered(call, "", <<>>, Some(resp))
  IN  IF IsRejection(resp.data.errcode)
        THEN [seen EXCEPT !.st = "RemoteRejected",
                          !.error = Some(RemoteError(resp.data.errcode, resp.data.errmsg))]
        ELSE [seen EXCEPT !.st = "Success"]

\* axios-retry's handler of a failed attempt, at time t: wait for the retry
\* delay and try again, or reject the promise with the error of this attempt.
onRejected(c, call, err, t) ==
  LET seen == Answered(call, err.code, err.message, err.response)
  IN  IF shouldRetry(getCurrentState(c), err, call.request[1].method)
        THEN [seen EXCEPT !.st = "RetryWait",
                          !.retryCount = getCurrentState(c) + 1,
                          !.retryAt = t + retryDelay]
        ELSE [seen EXCEPT !.st = "TransportFailed", !.error = seen.last]

\* Mutant of ReceiveResponse: a response is handled whenever it arrives, also
\* when the call is not waiting for one.
ReceiveResponseAnyTime(c) ==
  /\ calls[c].st # "Idle"
  /\ calls[c].request # Undefined
  /\ \E resp \in HttpResponses :
       calls' = [calls EXCEPT ![c] =
                   IF validateStatus(resp.status)
                     THEN onFulfilled(calls[c], resp)
                     ELSE onRejected(c, calls[c], StatusError(resp), now)]
  /\ UNCHANGED <<opts, ncalls, url, secret, timeout, retries, now>>

\* The transport answers the attempt of call c with an HTTP response.
ReceiveResponse(c) ==
  /\ calls[c].st = "Sending"
  /\ \E resp \in HttpResponses :
       calls' = [calls EXCEPT ![c] =
                   IF validateStatus(resp.status)
                     THEN onFulfilled(calls[c], resp)
                     ELSE onRejected(c, calls[c], StatusError(resp), now)]
  /\ UNCHANGED <<opts, ncalls, url, secret, timeout, retries, now>>

\* The attempt of call c fails without a response.
ReceiveError(c) ==
  /\ calls[c].st = "Sending"
  /\ \E e \in TransportErrors :
       calls' = [calls EXCEPT ![c] = onRejected(c, calls[c], NoResponseError(e), now)]
  /\ UNCHANGED <<opts, ncalls, url, secret, timeout, retries, now>>

\* The attempt of call c exceeds the timeout of its request config.
AttemptTimeout(c) ==
  /\ calls[c].st = "Sending"
  /\ LET ms == calls[c].request[1].timeout
         t == Max(now, calls[c].wire[1].sentAt + ms)
     IN  /\ now' = t
         /\ calls' = [calls EXCEPT ![c] = onRejected(c, calls[c], TimeoutError(ms), t)]
  /\ UNCHANGED <<opts, ncalls, url, secret, timeout, retries>>

\* The timeout of a retried attempt: reset to the configured one, or what is
\* left of it after the failed attempt and the delay.
RetryTimeout(call) ==
  LET cfg == call.request[1]
      spent == call.retryAt - call.wire[1].sentAt
  IN  IF shouldResetTimeout THEN cfg.timeout ELSE Max(cfg.timeout - spent, 1)

\* The retry timer of call c fires: axios-retry issues the request again.
RetryFire(c) ==
  /\ calls[c].st = "RetryWait"
  /\ LET t == Max(now, calls[c].retryAt)
         cfg == [calls[c].request[1] EXCEPT !.timeout = RetryTimeout(calls[c])]
     IN  /\ now' = t
         /\ calls' = [calls EXCEPT ![c] = Attempt(calls[c], cfg, t)]
  /\ UNCHANGED <<opts, ncalls, url, secret, timeout, retries>>

\* ---------------------------------------------------------- specification

\* new Robot(opts)
Constructed(o) ==
  /\ opts = o
  /\ url = ctorUrl(o)
  /\ secret = o.secret
  /\ timeout = ctorTimeout(o)
  /\ retries = ctorRetries(o)
  /\ now = 0
  /\ calls = [c \in Calls |-> IdleCall]

\* The Robots explored: every combination of options with a retry budget of
\* at most MaxRetriesOpt, and the larger budgets (the default one) with a
\* plain url, the default timeout and every secret.
ExploredOptions ==
  {o \in Options :
     ctorRetries(o) > MaxRetriesOpt =>
       /\ o.url = Some("http://hook")
       /\ o.accessToken = Undefined
       /\ o.timeout = Undefined}

\* An enabled Robot gets one send call, a disabled one up to MaxCalls.
Init ==
  \E o \in ExploredOptions :
    /\ Constructed(o)
    /\ ncalls \in Calls
    /\ ~UrlIsEmpty(ctorUrl(o)) => ncalls = 1

\* The Robots that get two overlapping send calls: enabled and signing, with a
\* retry budget of 1.
ConcurrentOptions ==
  {o \in Options :
     /\ o.url = Some("http://hook")
     /\ o.accessToken = Undefined
     /\ o.timeout = Undefined
     /\ o.secret = Some("SEC")
     /\ o.retries = Some(1)}

InitConcurrent ==
  \E o \in ConcurrentOptions :
    /\ Constructed(o)
    /\ ncalls = 2

Next ==
  \E c \in Calls :
    \/ text(c)
    \/ markdown(c)
    \/ link(c)
    \/ actionCard(c)
    \/ feedCard(c)
    \/ ReceiveResponse(c)
    \/ ReceiveError(c)
    \/ AttemptTimeout(c)
    \/ RetryFire(c)

Spec == Init /\ [][Next]_vars

\* Overlapping calls are link calls.
NextConcurrent ==
  \E c \in Calls :
    \/ link(c)
    \/ ReceiveResponse(c)
    \/ ReceiveError(c)
    \/ AttemptTimeout(c)
    \/ RetryFire(c)

SpecConcurrent == InitConcurrent /\ [][NextConcurrent]_vars

\* The Robots whose lifetime is followed over two calls: the Robot of the
\* overlapping calls, and one constructed without a URL and without a token.
LifetimeOptions ==
  ConcurrentOptions
  \cup {o \in Options :
          /\ o.url = Undefined
          /\ o.accessToken = Undefined
          /\ o.timeout = Undefined
          /\ o.secret = Some("SEC")
          /\ o.retries = Some(1)}

InitLifetime ==
  \E o \in LifetimeOptions :
    /\ Constructed(o)
    /\ ncalls = 2

SpecLifetime == InitLifetime /\ [][NextConcurrent]_vars

\* Every attempt in flight is answered sooner or later (at the latest by its
\* timeout, which is never 0), and every retry timer fires.
Fairness ==
  \A c \in Calls :
    /\ WF_vars(ReceiveResponse(c) \/ ReceiveError(c) \/ AttemptTimeout(c))
    /\ WF_vars(RetryFire(c))

\* The Robots whose calls are followed to their end: enabled and unsigned, with
\* every retry budget and timeout of Options.
LiveOptions ==
  {o \in ExploredOptions :
     /\ o.url = Some("http://hook")
     /\ o.accessToken = Undefined
     /\ o.secret = Undefined}

InitLive ==
  \E o \in LiveOptions :
    /\ Constructed(o)
    /\ ncalls = 1

SpecLive == InitLive /\ [][Next]_vars /\ Fairness

\* The builders on a wider range of arguments: with and without mentions, with
\* empty strings, with optional fields, both action card variants.
Contents == {"hello", ""}

Mentions == {[isAtAll |-> TRUE], [atMobiles |-> <<"138">>, atUserIds |-> <<"u1", "u2">>]}

TextInputs ==
  {[form |-> "shorthand", content |-> x] : x \in Contents}
  \cup {[form |-> "structured", req |-> [content |-> x]] : x \in Contents}
  \cup {[form |-> "structured", req |-> [content |-> x, at |-> m]] :
          x \in Contents, m \in Mentions}

MarkdownInputs ==
  {[form |-> "shorthand", title |-> "T", text |-> x] : x \in Contents}
  \cup {[form |-> "structured", req |-> [title |-> "T", text |-> x]] : x \in Contents}
  \cup {[form |-> "structured", req |-> [title |-> "T", text |-> x, at |-> m]] :
          x \in Contents, m \in Mentions}

LinkInputs ==
  LinkArgs \cup {[text |-> "B", title |-> "T", messageUrl |-> "http://m", picUrl |-> "http://p"]}

ActionCardInputs ==
  ActionCardArgs
  \cup {[title |-> "T", text |-> "B", btnOrientation |-> o,
          btns |-> <<[title |-> "yes", actionURL |-> "http://y"],
                     [title |-> "no", actionURL |-> "http://n"]>>] : o \in {"0", "1"}}

FeedCardInputs == FeedCardArgs \cup {[links |-> <<>>]}

\* The Robot the builders are exercised on: enabled, unsigned, one retry.
BuilderOptions ==
  {o \in Options :
     /\ o.url = Some("http://hook")
     /\ o.accessToken = Undefined
     /\ o.timeout = Undefined
     /\ o.secret = Undefined
     /\ o.retries = Some(1)}

InitBuilders ==
  \E o \in BuilderOptions :
    /\ Constructed(o)
    /\ ncalls = 1

NextBuilders ==
  \E c \in Calls :
    \/ \E arg \in TextInputs : textCall(c, arg)
    \/ \E arg \in MarkdownInputs : markdownCall(c, arg)
    \/ \E data \in LinkInputs : request(c, "link", data, linkData(data))
    \/ \E data \in ActionCardInputs : request(c, "actionCard", data, actionCardData(data))
    \/ \E data \in FeedCardInputs : request(c, "feedCard", data, feedCardData(data))
    \/ ReceiveResponse(c)
    \/ ReceiveError(c)
    \/ AttemptTimeout(c)
    \/ RetryFire(c)

SpecBuilders == InitBuilders /\ [][NextBuilders]_vars

\* ------------------------------------------------- vocabulary of the claims

\* maxRetries as configured: the retries option, 10 when it is not given.
ConfiguredMaxRetries == IF opts.retries = Undefined THEN DefaultRetries ELSE opts.retries[1]

\* The dispatcher has a URL to send to.
Enabled == url # Undefined /\ url[1] # <<"">>

HasAnswer(c) == calls[c].last # Undefined

LastAnswer(c) == calls[c].last[1]

\* The latest answer of call c is an HTTP response.
HasStatus(c) == HasAnswer(c) /\ LastAnswer(c).response # Undefined

LastStatus(c) == LastAnswer(c).response[1].status

LastEnvelope(c) == LastAnswer(c).response[1].data

Is2xx(status) == status \in 200..299

\* A transient failure: a network error, a timeout, or an HTTP status >= 500.
Transient(c) ==
  /\ HasAnswer(c)
  /\ IF HasStatus(c)
       THEN LastStatus(c) >= 500
       ELSE LastAnswer(c).code \in {"ECONNRESET", "ETIMEDOUT"}
            \/ (LastAnswer(c).code = "ECONNABORTED"
                /\ LastAnswer(c).message[1] = "timeout of ")

\* ------------------------------------------------------------------ C1

\* C1: when the first maxRetries attempts of a call are answered with HTTP 500,
\* the call keeps going (it waits for a retry or has the next attempt in
\* flight), and when the attempt after them is answered with a 2xx status and
\* errcode 0 the call is a Success with exactly maxRetries+1 attempts.
C1_RetriesThenSuccess ==
  \A c \in Calls :
    /\ (/\ HasStatus(c)
        /\ calls[c].prior500
        /\ LastStatus(c) = 500
        /\ LastAnswer(c).attempt <= ConfiguredMaxRetries)
       => calls[c].st \in {"RetryWait", "Sending"}
    /\ (/\ HasStatus(c)
        /\ calls[c].prior500
        /\ Is2xx(LastStatus(c))
        /\ LastEnvelope(c).errcode = 0
        /\ LastAnswer(c).attempt = ConfiguredMaxRetries + 1)
       => /\ calls[c].st = "Success"
          /\ calls[c].attempts = ConfiguredMaxRetries + 1
          /\ calls[c].error = Undefined

\* A call that succeeded on attempt maxRetries+1 after maxRetries answers of 500.
C1_Witness ==
  \E c \in Calls :
    /\ calls[c].st = "Success"
    /\ calls[c].prior500
    /\ ConfiguredMaxRetries >= 2
    /\ calls[c].attempts = ConfiguredMaxRetries + 1

\* ------------------------------------------------------------------ C2

\* C2: an attempt answered with a 2xx status and a non-zero errcode ends the
\* call as RemoteRejected, the error carries that errcode and errmsg, and the
\* rejected attempt is the last one of the call: the transport is not invoked
\* again, so a call rejected on its first attempt has exactly one attempt.
C2_RejectionNotRetried ==
  \A c \in Calls :
    (HasStatus(c) /\ Is2xx(LastStatus(c)) /\ LastEnvelope(c).errcode # 0)
    => /\ calls[c].st = "RemoteRejected"
       /\ calls[c].error # Undefined
       /\ calls[c].error[1].message[2] = LastEnvelope(c).errcode
       /\ calls[c].error[1].message[4] = LastEnvelope(c).errmsg
       /\ calls[c].attempts = LastAnswer(c).attempt
       /\ calls[c].retryCount = LastAnswer(c).attempt - 1

\* A call rejected by the remote on its first attempt, with retry budget left.
C2_Witness ==
  \E c \in Calls :
    /\ calls[c].st = "RemoteRejected"
    /\ calls[c].attempts = 1
    /\ retries >= 1
    /\ LastEnvelope(c).errmsg = "token invalid"

\* ------------------------------------------------------------------ C3

\* C3: an attempt answered with a status in [400,500) ends the call as
\* TransportFailed with the error of that attempt, and no attempt follows it,
\* whatever is left of the retry budget: a call whose first attempt gets a 4xx
\* has exactly one attempt.
C3_ClientErrorNotRetried ==
  \A c \in Calls :
    (HasStatus(c) /\ LastStatus(c) \in 400..499)
    => /\ calls[c].st = "TransportFailed"
       /\ calls[c].error = calls[c].last
       /\ calls[c].attempts = LastAnswer(c).attempt
       /\ calls[c].retryCount = LastAnswer(c).attempt - 1

\* A call that failed on a 4xx at its first attempt with the whole budget left.
C3_Witness ==
  \E c \in Calls :
    /\ calls[c].st = "TransportFailed"
    /\ HasStatus(c)
    /\ LastStatus(c) = 400
    /\ calls[c].attempts = 1
    /\ retries = DefaultRetries

\* ------------------------------------------------------------------ C4

\* C4: on a Robot built with neither url nor accessToken, every call of every
\* message kind is either not issued yet or completed as Success, and the
\* transport was never invoked.
C4_DisabledIsNoOp ==
  (opts.url = Undefined /\ opts.accessToken = Undefined)
  => \A c \in Calls :
       /\ calls[c].st \in {"Idle", "Success"}
       /\ calls[c].attempts = 0
       /\ calls[c].wire = Undefined
       /\ calls[c].error = Undefined

\* Two calls of different kinds completed on a Robot without url and token.
C4_Witness ==
  /\ opts.url = Undefined
  /\ opts.accessToken = Undefined
  /\ calls[1].st = "Success"
  /\ calls[1].op = "actionCard"
  /\ calls[2].st = "Success"
  /\ calls[2].op = "feedCard"

\* ------------------------------------------------------------------ C5

\* C5: a call never makes more than maxRetries+1 attempts, maxRetries being the
\* configured budget; with maxRetries = 0 a failed first attempt is not retried.
C5_AttemptsWithinConfiguredBudget ==
  \A c \in Calls :
    /\ calls[c].attempts <= ConfiguredMaxRetries + 1
    /\ (ConfiguredMaxRetries = 0 /\ HasAnswer(c)) => calls[c].st \in Terminal

\* ------------------------------------------------------------------ C6

\* C6: a call that ends on a transient failure (so every attempt of it failed
\* with one) ends as TransportFailed after exactly maxRetries+1 attempts, and
\* the failure it reports is the one of its last attempt.
C6_ExhaustedAfterConfiguredBudget ==
  \A c \in Calls :
    (calls[c].st \in Terminal /\ Transient(c))
    => /\ calls[c].st = "TransportFailed"
       /\ calls[c].attempts = ConfiguredMaxRetries + 1
       /\ calls[c].error = calls[c].last
       /\ calls[c].error[1].attempt = calls[c].attempts

\* ------------------------------------------------------------------ C7

\* C7: on an enabled Robot a completed call is a Success exactly when the
\* answer to its final attempt has a status in [200,300) and errcode 0; an
\* answer with a status outside [200,300) never makes the call a Success,
\* whatever envelope it carries.
C7_SuccessIffAccepted ==
  Enabled =>
    \A c \in Calls :
      /\ calls[c].st \in Terminal
         => (calls[c].st = "Success"
             <=> /\ HasStatus(c)
                 /\ LastAnswer(c).attempt = calls[c].attempts
                 /\ Is2xx(LastStatus(c))
                 /\ LastEnvelope(c).errcode = 0)
      /\ (HasStatus(c) /\ ~Is2xx(LastStatus(c))) => calls[c].st # "Success"

\* A call that succeeded on a retried attempt, and so after a refused answer.
C7_Witness ==
  /\ Enabled
  /\ \E c \in Calls :
       /\ calls[c].st = "Success"
       /\ calls[c].attempts = 2
       /\ LastStatus(c) = 299

\* ------------------------------------------------------------------ C8

\* The query parameters of the latest attempt of call c.
WireParams(c) == calls[c].wire[1].params

\* The latest attempt of call c carries `_`, set to the time it was sent.
CacheBustIsSendTime(c) ==
  /\ "_" \in DOMAIN WireParams(c)
  /\ WireParams(c)["_"] = calls[c].wire[1].sentAt

\* The latest attempt of call c carries timestamp and sign, and the sign is the
\* signature of the timestamp it carries.
SignedConsistently(c) ==
  /\ {"timestamp", "sign"} \subseteq DOMAIN WireParams(c)
  /\ WireParams(c)["sign"] = Sign(opts.secret[1], WireParams(c)["timestamp"])

\* The latest attempt of call c carries neither timestamp nor sign.
Unsigned(c) == DOMAIN WireParams(c) \cap {"timestamp", "sign"} = {}

OwnAccount(c) ==
  LET call == calls[c]
  IN  /\ call.attempts <= retries + 1
      /\ call.st = "Idle" => call.attempts = 0 /\ call.retryCount = 0
      /\ call.st = "Sending" =>
           /\ call.retryCount = call.attempts - 1
           /\ HasAnswer(c) => LastAnswer(c).attempt = call.attempts - 1 /\ Transient(c)
      /\ call.st = "RetryWait" =>
           /\ call.retryCount = call.attempts
           /\ call.attempts <= retries
           /\ LastAnswer(c).attempt = call.attempts
           /\ Transient(c)
      /\ call.st \in Terminal =>
           /\ call.retryCount = call.attempts - 1
           /\ LastAnswer(c).attempt = call.attempts
      /\ call.st = "Success" =>
           HasStatus(c) /\ Is2xx(LastStatus(c)) /\ LastEnvelope(c).errcode = 0
      /\ call.st = "RemoteRejected" =>
           HasStatus(c) /\ Is2xx(LastStatus(c)) /\ LastEnvelope(c).errcode # 0
      /\ call.st = "TransportFailed" =>
           /\ ~(HasStatus(c) /\ Is2xx(LastStatus(c)))
           /\ Transient(c) => call.attempts = retries + 1

\* A step of one call leaves every other call as it was.
OneCallPerStep ==
  \A c, d \in Calls : (c # d /\ calls'[c] # calls[c]) => calls'[d] = calls[d]

\* C9: under every interleaving of overlapping calls, each call's attempts and
\* outcome follow from the answers to its own attempts (no call uses up
\* another call's retry budget), and a step of one call changes no other call.
C9_CallsIndependent == [](\A c \in Calls : OwnAccount(c)) /\ [][OneCallPerStep]_vars

\* Call 1 used up its budget and failed while call 2, which also failed once,
\* is making the retry it is entitled to.
C9_Witness ==
  /\ calls[1].st = "TransportFailed"
  /\ calls[1].attempts = retries + 1
  /\ calls[2].st = "Sending"
  /\ calls[2].attempts = 2
  /\ calls[2].wire[1].sentAt < calls[1].wire[1].sentAt

\* ----------------------------------------------------------------- C10

\* The URL of the latest attempt of call c.
WireUrl(c) == calls[c].wire[1].url

\* C10 as stated: with an accessToken set, every attempt goes to the URL
\* derived from it, and the supplied url is used only when none is set.
C10_TokenGivenWins ==
  \A c \in Calls :
    calls[c].wire # Undefined
    => IF opts.accessToken # Undefined
         THEN WireUrl(c) = DerivedUrl(opts.accessToken[1])
         ELSE WireUrl(c) = <<opts.url[1]>>

\* C10 amended: with a non-empty accessToken, every attempt goes to
\* https://oapi.dingtalk.com/robot/send?access_token=<accessToken>, whether or
\* not a url was supplied; the supplied url is used only when the accessToken
\* is absent or empty.
C10_NonEmptyTokenWins ==
  \A c \in Calls :
    calls[c].wire # Undefined
    => IF opts.accessToken \notin {Undefined, Some("")}
         THEN WireUrl(c) =
                <<"https://oapi.dingtalk.com/robot/send?access_token=", opts.accessToken[1]>>
         ELSE WireUrl(c) = <<opts.url[1]>>

\* A retried attempt of a Robot built with both a url and an accessToken.
C10_Witness ==
  \E c \in Calls :
    /\ opts.url = Some("http://hook")
    /\ opts.accessToken = Some("tok")
    /\ calls[c].attempts = 2
    /\ WireUrl(c)[2] = "tok"

\* ----------------------------------------------------------------- C11

\* The argument call c was made with, and the body of its latest attempt.
ArgOf(c) == calls[c].arg[1]

BodyOf(c) == calls[c].wire[1].body

\* The argument of call c has the shorthand (positional) form.
IsShorthand(c) == ArgOf(c).form = "shorthand"

\* The argument of call c has the structured form and names no mentions.
IsPlainStructured(c) == ArgOf(c).form = "structured" /\ "at" \notin DOMAIN ArgOf(c).req

\* C11: for every content c, text(c) and text({content: c}) both send the body
\* {msgtype: 'text', text: {content: c}}, with no mentions field, and so
\* identical bodies.
C11_TextFormsAgree ==
  \A c \in Calls :
    (calls[c].wire # Undefined /\ calls[c].op = "text")
    => /\ IsShorthand(c) =>
            BodyOf(c) = [json |-> [msgtype |-> "text",
                                   text |-> [content |-> ArgOf(c).content]]]
       /\ IsPlainStructured(c) =>
            BodyOf(c) = [json |-> [msgtype |-> "text",
                                   text |-> [content |-> ArgOf(c).req.content]]]

\* A shorthand text call whose attempt is on its way.
C11_Witness ==
  \E c \in Calls :
    /\ calls[c].op = "text"
    /\ calls[c].wire # Undefined
    /\ IsShorthand(c)
    /\ ArgOf(c).content = "hello"
    /\ "at" \notin DOMAIN BodyOf(c).json.text

\* ----------------------------------------------------------------- C12

\* C12: for every title t and text b, markdown(t, b) and
\* markdown({title: t, text: b}) both send the body
\* {msgtype: 'markdown', markdown: {title: t, text: b}}, with no mentions
\* field, and so identical bodies.
C12_MarkdownFormsAgree ==
  \A c \in Calls :
    (calls[c].wire # Undefined /\ calls[c].op = "markdown")
    => /\ IsShorthand(c) =>
            BodyOf(c) = [json |-> [msgtype |-> "markdown",
                                   markdown |-> [title |-> ArgOf(c).title,
                                                 text |-> ArgOf(c).text]]]
       /\ IsPlainStructured(c) =>
            BodyOf(c) = [json |-> [msgtype |-> "markdown",
                                   markdown |-> [title |-> ArgOf(c).req.title,
                                                 text |-> ArgOf(c).req.text]]]

\* A structured markdown call without mentions whose attempt is on its way.
C12_Witness ==
  \E c \in Calls :
    /\ calls[c].op = "markdown"
    /\ calls[c].wire # Undefined
    /\ IsPlainStructured(c)
    /\ ArgOf(c).req.text = "hello"
    /\ DOMAIN BodyOf(c).json.markdown = {"title", "text"}

\* ----------------------------------------------------------------- C13

\* The latest answer of call c is a failure: anything but a 2xx response.
FailedAnswer(c) == HasAnswer(c) /\ ~(HasStatus(c) /\ Is2xx(LastStatus(c)))

\* C13: after a failed attempt that leaves retry budget, the call goes on to
\* another attempt (it waits for the retry, or has it in flight) exactly when
\* the failure is a network error, a timeout of that attempt or a status >= 500,
\* and ends at once as TransportFailed otherwise; every attempt gets the whole
\* configured timeout.
C13_RetryExactlyOnTransient ==
  \A c \in Calls :
    /\ (FailedAnswer(c) /\ LastAnswer(c).attempt <= ConfiguredMaxRetries)
       => IF Transient(c)
            THEN \/ /\ calls[c].st = "RetryWait"
                    /\ calls[c].attempts = LastAnswer(c).attempt
                 \/ /\ calls[c].st = "Sending"
                    /\ calls[c].attempts = LastAnswer(c).attempt + 1
            ELSE /\ calls[c].st = "TransportFailed"
                 /\ calls[c].attempts = LastAnswer(c).attempt
    /\ calls[c].request # Undefined
       => calls[c].request[1].timeout =
            IF opts.timeout \in {Undefined, Some(0)} THEN DefaultTimeout ELSE opts.timeout[1]

\* A call whose second attempt timed out and that waits for its next retry.
C13_Witness ==
  \E c \in Calls :
    /\ calls[c].st = "RetryWait"
    /\ calls[c].attempts = 2
    /\ LastAnswer(c).code = "ECONNABORTED"
    /\ opts.timeout = Some(7)

\* ----------------------------------------------------------------- C14

\* A call that has reached a terminal state stays exactly as it is.
TerminalIsFinal ==
  \A c \in Calls : calls[c].st \in Terminal => calls'[c] = calls[c]

\* C14: on an enabled Robot every call that was issued reaches a terminal state
\* (Success, RemoteRejected or TransportFailed), given that every attempt is
\* answered and every retry timer fires; a call in a terminal state makes no
\* further attempt and keeps its outcome.
C14_CallsTerminate ==
  /\ \A c \in Calls :
       (Enabled /\ calls[c].st \in {"Sending", "RetryWait"}) ~> (calls[c].st \in Terminal)
  /\ [][TerminalIsFinal]_vars

\* A call that ended after it used its whole default budget.
C14_Witness ==
  /\ Enabled
  /\ \E c \in Calls :
       /\ calls[c].st = "TransportFailed"
       /\ calls[c].attempts = DefaultRetries + 1

\* ----------------------------------------------------------------- C15

\* The latest answer of call c after the step is a 2xx response.
AcceptedNext(c) ==
  /\ calls'[c].last # Undefined
  /\ calls'[c].last[1].response # Undefined
  /\ Is2xx(calls'[c].last[1].response[1].status)

\* A step of call c along Idle -> Sending -> {RetryWait -> Sending}* -> terminal.
AlongStateMachine(c) ==
  LET from == calls[c].st
      to == calls'[c].st
  IN  /\ from # to =>
           \/ from = "Idle" /\ to = "Sending"
           \/ /\ from = "Sending" /\ to = "RetryWait"
              /\ ~AcceptedNext(c)
              /\ calls'[c].retryAt = now' + 1000
           \/ /\ from = "RetryWait" /\ to = "Sending"
              /\ now' >= calls[c].retryAt
              /\ calls'[c].wire[1].sentAt >= calls[c].wire[1].sentAt + 1000
           \/ from = "Sending" /\ to \in {"Success", "RemoteRejected"} /\ AcceptedNext(c)
           \/ from = "Sending" /\ to = "TransportFailed" /\ ~AcceptedNext(c)
      /\ calls'[c].attempts # calls[c].attempts =>
           /\ calls'[c].attempts = calls[c].attempts + 1
           /\ to = "Sending"
           /\ from = (IF calls[c].attempts = 0 THEN "Idle" ELSE "RetryWait")

\* A call on a Robot without a URL completes at once, with no attempt.
NoOpStep(c) ==
  calls'[c] # calls[c] =>
    /\ calls[c].st = "Idle"
    /\ calls'[c].st = "Success"
    /\ calls'[c].attempts = 0

\* C15 as stated: every call moves along the state machine only.
C15_EveryCallAlongStateMachine == [][\A c \in Calls : AlongStateMachine(c)]_vars

\* C15 amended: on an enabled Robot every call moves along
\* Idle -> Sending -> {RetryWait -> Sending}* -> terminal only: every attempt
\* after the first follows a RetryWait of 1000 ms that was entered from a failed
\* Sending, Success and RemoteRejected are entered only from a Sending answered
\* with a 2xx status, and no attempt follows another directly. On a disabled
\* Robot a call goes from Idle straight to Success, without Sending.
C15_EnabledCallAlongStateMachine ==
  [][\A c \in Calls : IF Enabled THEN AlongStateMachine(c) ELSE NoOpStep(c)]_vars

\* A call that is in its third attempt, each retry a full delay after the
\* attempt before it.
C15_Witness ==
  \E c \in Calls :
    /\ calls[c].st = "Sending"
    /\ calls[c].attempts = 3
    /\ calls[c].wire[1].sentAt >= calls[c].first[1].sentAt + 2000

\* ----------------------------------------------------------------- C16

\* C16 as stated: the timestamp of every signed attempt is the same instant as
\* its `_`.
C16_TimestampIsCacheBust ==
  \A c \in Calls :
    (calls[c].wire # Undefined /\ "timestamp" \in DOMAIN WireParams(c))
    => WireParams(c)["timestamp"] = WireParams(c)["_"]

\* C16 amended: the timestamp of every signed attempt is the instant at which
\* the send call was made; it is never later than the `_` of the attempt, which
\* is the instant the attempt is sent, and on the k-th retry it is at least
\* k * 1000 ms earlier than `_`.
C16_TimestampIsCallTime ==
  \A c \in Calls :
    (calls[c].wire # Undefined /\ "timestamp" \in DOMAIN WireParams(c))
    => /\ WireParams(c)["timestamp"] = calls[c].calledAt
       /\ WireParams(c)["timestamp"] <= WireParams(c)["_"]
       /\ WireParams(c)["_"] >= WireParams(c)["timestamp"] + 1000 * (calls[c].attempts - 1)

\* A signed call that waits for its second retry: the `_` of its latest attempt
\* is more than a second later than its timestamp.
C16_Witness ==
  \E c \in Calls :
    /\ calls[c].st = "RetryWait"
    /\ calls[c].attempts = 2
    /\ "timestamp" \in DOMAIN WireParams(c)
    /\ WireParams(c)["_"] >= WireParams(c)["timestamp"] + 1000

\* ----------------------------------------------------------------- C17

\* The fields the caller of call c gave: the positional arguments of a
\* shorthand text or markdown call, the request object otherwise.
CallerFields(c) ==
  CASE calls[c].op = "text" ->
         IF IsShorthand(c) THEN [content |-> ArgOf(c).content] ELSE ArgOf(c).req
    [] calls[c].op = "markdown" ->
         IF IsShorthand(c) THEN [title |-> ArgOf(c).title, text |-> ArgOf(c).text]
                           ELSE ArgOf(c).req
    [] OTHER -> ArgOf(c)

\* The kinds of payload, one per builder.
Kinds == {"text", "markdown", "link", "actionCard", "feedCard"}

\* C17: the body of every attempt of a call of builder K is the serialised
\* {msgtype: K, K: fields} with the caller's fields unmodified, and every
\* attempt, retries included, carries the method, URL and body of the first
\* attempt of its call.
C17_PayloadUnchanged ==
  \A c \in Calls :
    calls[c].wire # Undefined
    => /\ calls[c].op \in Kinds
       /\ BodyOf(c) = [json |-> ("msgtype" :> calls[c].op) @@ (calls[c].op :> CallerFields(c))]
       /\ calls[c].wire[1].method = calls[c].first[1].method
       /\ calls[c].wire[1].url = calls[c].first[1].url
       /\ calls[c].wire[1].body = calls[c].first[1].body

\* A multi-button action card is being sent for the second time.
C17_Witness ==
  \E c \in Calls :
    /\ calls[c].st = "Sending"
    /\ calls[c].attempts = 2
    /\ calls[c].op = "actionCard"
    /\ "btns" \in DOMAIN ArgOf(c)
    /\ calls[c].wire[1].sentAt > calls[c].first[1].sentAt

\* ----------------------------------------------------------------- C18

\* A step leaves the configuration of the Robot as it was.
ConfigurationKept ==
  /\ opts' = opts
  /\ url' = url
  /\ secret' = secret
  /\ timeout' = timeout
  /\ retries' = retries
  /\ Enabled' <=> Enabled

\* Call c has the whole retry budget of the Robot: it waits for a retry only
\* within the budget, and it gives up on a transient failure only after the
\* first attempt and as many retries as the budget.
WholeBudget(c) ==
  /\ calls[c].st = "RetryWait" => calls[c].attempts <= retries
  /\ (calls[c].st = "TransportFailed" /\ Transient(c)) => calls[c].attempts = retries + 1

\* C18: no step of any call changes the configuration of the Robot (effective
\* URL, secret, timeout, retry budget), a disabled Robot never sends and an
\* enabled one stays enabled, and every call has the whole retry budget the
\* Robot was constructed with, whatever the calls before it used.
C18_ConfigurationFixed ==
  /\ [][ConfigurationKept]_vars
  /\ [](\A c \in Calls : ~Enabled => calls[c].attempts = 0 /\ calls[c].st \in {"Idle", "Success"})
  /\ [](\A c \in Calls : Enabled => WholeBudget(c))

\* Call 1 used its first attempt and its whole budget and failed; call 2, made
\* after that, did the same.
C18_Witness ==
  /\ Enabled
  /\ \A c \in {1, 2} :
       calls[c].st = "TransportFailed" /\ Transient(c) /\ calls[c].attempts = retries + 1
  /\ calls[2].calledAt >= calls[1].wire[1].sentAt

\* ----------------------------------------------------------------- C19

\* The timestamp and sign among the query parameters params.
SigningOf(params) == [p \in DOMAIN params \cap {"timestamp", "sign"} |-> params[p]]

\* C19: when a secret is configured, every attempt of a call, retries
\* included, carries the timestamp and sign of the first attempt of the call,
\* which were computed when the call was made and not later than the first
\* attempt was sent, while `_` is the time the attempt itself is sent, for a
\* retry later than the `_` of the first attempt.
C19_SignedOncePerCall ==
  \A c \in Calls :
    (opts.secret # Undefined /\ calls[c].wire # Undefined)
    => LET first == calls[c].first[1]
           latest == calls[c].wire[1]
       IN  /\ SigningOf(latest.params) = SigningOf(first.params)
           /\ "timestamp" \in DOMAIN first.params =>
                /\ first.params["timestamp"] = calls[c].calledAt
                /\ first.params["timestamp"] <= first.sentAt
                /\ first.params["sign"] = Sign(secret[1], calls[c].calledAt)
           /\ latest.params["_"] = latest.sentAt
           /\ calls[c].attempts >= 2 => latest.params["_"] > first.params["_"]

\* The first retry of a signed call is being sent: it carries the timestamp
\* of the first attempt and a later `_`.
C19_Witness ==
  \E c \in Calls :
    /\ calls[c].st = "Sending"
    /\ calls[c].attempts = 2
    /\ "sign" \in DOMAIN WireParams(c)
    /\ WireParams(c)["timestamp"] = calls[c].first[1].params["timestamp"]
    /\ WireParams(c)["_"] > calls[c].first[1].params["_"]

====
